---- MODULE Spec2Model ----
(***************************************************************************)
(* The container lifecycle of ansible_bender/builders/buildah_builder.py    *)
(* as a state machine: a BuildahBuilder drives the external build engine    *)
(* (buildah) and the external run engine (podman) through their command     *)
(* lines.  The state is the engine's storage (containers and images), the   *)
(* host (which binaries are resolvable, which files the base image holds),  *)
(* the immutable build specification of every builder instance, and a       *)
(* record of the operation that ran last (the external commands it issued,  *)
(* the exception it raised or the value it returned).                       *)
(*                                                                         *)
(* A Python string is a sequence of atoms (TLA+ strings), so that           *)
(* concatenation ("%s=%s" % (k, v), target + "-cont") and the engine's      *)
(* parsing of what was concatenated are computed, not assumed.              *)
(***************************************************************************)
EXTENDS Naturals, Sequences, FiniteSets

VARIABLES
    installed,     \* host: the binaries resolvable in the execution environment
    imageFiles,    \* host: the paths that exist inside the base image
    build,         \* instance -> its Build (immutable once chosen)
    constructed,   \* the instances whose __init__ returned
    eng,           \* the engine's storage: containers, images, next image id
    checked,       \* instance -> the binaries it has verified so far
    last,          \* the operation that ran last
    phase,         \* instance -> where it stands between create() and clean(), and the
                   \* bind-mounts of its latest create()
    commitCalled   \* instance -> commit() was called since its working container was created

vars == <<installed, imageFiles, build, constructed, eng, checked, last, phase,
          commitCalled>>

(***************************** bounds ***************************************)
\* Images the engine commits per behaviour.
MaxCommits == 1

(***************************** strings **************************************)
\* A one-atom string.
S(a) == <<a>>
EmptyStr == <<>>
\* Python's None as a value of its own (not the empty string).
None == [tag |-> "None", val |-> <<>>]
\* A Python str / any other Python value.
Val(v) == [tag |-> "val", val |-> v]

\* Python truthiness of a str, list or dict held as a sequence.
Truthy(x) == x # <<>>

\* "%s=%s" % (k, v)
FormatKV(k, v) == k \o S("=") \o v

\* Index of the first "=" atom of s, 0 when there is none.
RECURSIVE FirstEq(_, _)
FirstEq(s, i) ==
    IF i > Len(s) THEN 0
    ELSE IF s[i] = "=" THEN i
    ELSE FirstEq(s, i + 1)

\* s split at index i into what precedes it and what follows it (i = 0: no split).
SplitAt(s, i) ==
    IF i = 0 THEN <<s, EmptyStr>>
    ELSE <<SubSeq(s, 1, i - 1), SubSeq(s, i + 1, Len(s))>>

\* The engine's reading of a KEY=VALUE argument: split at the first "=".
ParseKV(s) == SplitAt(s, FirstEq(s, 1))

\* The set of elements of a sequence.
Range(s) == {s[i] : i \in 1..Len(s)}

(***************************** the host and the registry ********************)
Buildah == S("buildah")
Podman == S("podman")
Binaries == {Buildah, Podman}

\* Image references.
Fedora == S("fedora")
Alpine == S("alpine")
Legacy == S("legacy")
\* The references the remote registry can serve.
Registry == {Fedora, Alpine}
\* The identity of a registry image.
RegistryId(ref) == <<"sha", "r">> \o ref

Digits == <<"1", "2", "3", "4", "5", "6", "7", "8", "9">>
\* The identity the engine gives its n-th committed image.
CommitId(n) == <<"sha", Digits[n]>>

\* Builder.python_interpr_prio, in priority order (docstring of find_python_interpreter).
Python3 == <<"/", "usr", "/", "bin", "/", "python3">>
Python2 == <<"/", "usr", "/", "bin", "/", "python2">>
Python == <<"/", "usr", "/", "bin", "/", "python">>
python_interpr_prio == <<Python3, Python2, Python>>

(***************************** the build specification **********************)
EmptyConfig ==
    [workingdir |-> EmptyStr, env |-> {}, labels |-> {}, ports |-> {},
     user |-> EmptyStr, cmd |-> EmptyStr, volumes |-> {}]

WorkingDirs == {EmptyStr, <<"/", "w">>}
\* dicts, as sequences of (key, value) in iteration order, keys distinct.
EnvVarChoices ==
    {<<>>,
     << <<S("A"), <<"x", "=", "y">> >>, <<S("B"), EmptyStr>> >>}
LabelChoices == {<<>>, << <<S("L"), S("v")>> >>}
\* "x" is a port specifier the engine rejects.
PortChoices == {<<>>, <<S("80")>>, <<S("80"), S("x")>>}
Users == {EmptyStr, S("app")}
Cmds == {EmptyStr, S("sh")}
\* "rel" is a volume path the engine rejects (not absolute).
VolumeChoices == {<<>>, << <<"/", "data">> >>, <<S("rel")>>}

AllMetadatas ==
    [working_dir : WorkingDirs, env_vars : EnvVarChoices, labels : LabelChoices,
     ports : PortChoices, user : Users, cmd : Cmds, volumes : VolumeChoices]

\* How many of the pre-commit fields, and of the fields applied at commit, are declared.
Count(bs) == Cardinality({i \in 1..Len(bs) : bs[i]})
Declared1(md) ==
    Count(<<md.working_dir # <<>>, md.env_vars # <<>>, md.labels # <<>>, md.ports # <<>>>>)
Declared2(md) == Count(<<md.user # <<>>, md.cmd # <<>>, md.volumes # <<>>>>)

\* Whether every declared value is one the engine accepts.
Accepted(md) == md.ports # <<S("80"), S("x")>> /\ md.volumes # <<S("rel")>>

\* The build specifications explored: nothing declared at all, or one side
\* declared in full with accepted values and the other side with none, one or
\* all of its fields declared.
Metadatas ==
    {md \in AllMetadatas :
        \/ Declared1(md) = 0 /\ Declared2(md) = 0
        \/ /\ Declared1(md) = 4 /\ md.ports = <<S("80")>>
           /\ Declared2(md) \in {0, 1, 3}
        \/ /\ Declared2(md) = 3 /\ md.volumes = << <<"/", "data">> >>
           /\ Declared1(md) \in {0, 1, 4}}

\* Target image references, one per instance.
Targets == <<S("myapp"), S("other")>>
\* The instances a behaviour may hold.
Instances == {1, 2}

\* Bind-mount specifications given to create().
Mount1 == <<"/", "h", ":", "/", "c">>
Mount2 == <<"/", "i", ":", "/", "d">>
BuildVolumeChoices == {<<>>, <<Mount1>>, <<Mount1, Mount2>>}

(***************************** the external engines ************************)
(* The build engine and the run engine are not code of the repository: they *)
(* are modelled from the command lines section 6 of the specification       *)
(* describes.  Both share one storage.  A command is deterministic: which   *)
(* commands fail is decided by the storage and by the arguments.            *)

Flag(a) == S(a)

\* An image of the storage.  hasId says whether its metadata holds the identity field.
ImageRec(hasId, id, config) == [hasId |-> hasId, id |-> id, config |-> config]
RegistryImage(ref) == ImageRec(TRUE, RegistryId(ref), EmptyConfig)

\* The storage before any build: two images left by earlier tools, one whose
\* metadata lacks the identity field and one whose identity is the empty string.
Blank == S("blank")
InitEng ==
    [containers |-> [n \in {} |-> 0],
     images |-> [n \in {Legacy, Blank} |->
                    IF n = Legacy THEN ImageRec(FALSE, EmptyStr, EmptyConfig)
                    ELSE ImageRec(TRUE, EmptyStr, EmptyConfig)],
     commits |-> 0]

\* f with key k set to v (k added to the domain when new).
Put(f, k, v) == [x \in DOMAIN f \cup {k} |-> IF x = k THEN v ELSE f[x]]
\* f without key k.
Drop(f, k) == [x \in DOMAIN f \ {k} |-> f[x]]

\* The local images a reference names: by name, or by a non-empty identity.
LocalMatches(e, ref) ==
    {n \in DOMAIN e.images :
        n = ref \/ (e.images[n].hasId /\ e.images[n].id # EmptyStr /\ e.images[n].id = ref)}

IsLocal(e, ref) == LocalMatches(e, ref) # {}
LocalImage(e, ref) ==
    IF ref \in DOMAIN e.images THEN e.images[ref]
    ELSE e.images[CHOOSE n \in LocalMatches(e, ref) : TRUE]

\* Whether the engine can obtain the image: it is local, or the registry serves it.
Obtainable(e, ref) == IsLocal(e, ref) \/ ref \in Registry
\* The storage once the image was obtained (pulled when it was not local).
Obtained(e, ref) ==
    IF IsLocal(e, ref) THEN e
    ELSE [e EXCEPT !.images = Put(e.images, ref, RegistryImage(ref))]
\* podman pull always asks the registry.
Pulled(e, ref) == [e EXCEPT !.images = Put(e.images, ref, RegistryImage(ref))]

ExecResult(e, rc, out, err) == [eng |-> e, rc |-> rc, out |-> out, err |-> err]
ExecOk(e, out) == ExecResult(e, 0, out, EmptyStr)
ExecFail(e, rc, msg) == ExecResult(e, rc, <<>>, S(msg))

\* The flags of `buildah from` and of `buildah config` that take a value.
FromFlags == {Flag("-v"), Flag("--name")}
ConfigFlags ==
    {Flag("--workingdir"), Flag("-e"), Flag("-l"), Flag("--user"), Flag("--cmd"),
     Flag("-p"), Flag("-v")}

\* The engine's reading of an argument list: the (flag, value) options in order,
\* the positional arguments in order, and whether a flag lacked its value.
RECURSIVE ParseArgs(_, _, _, _)
ParseArgs(args, flags, i, acc) ==
    IF i > Len(args) THEN acc
    ELSE IF args[i] \in flags THEN
        IF i + 1 > Len(args) THEN [acc EXCEPT !.bad = TRUE]
        ELSE ParseArgs(args, flags, i + 2,
                       [acc EXCEPT !.opts = Append(@, <<args[i], args[i + 1]>>)])
    ELSE ParseArgs(args, flags, i + 1, [acc EXCEPT !.pos = Append(@, args[i])])

Parsed(args, flags) == ParseArgs(args, flags, 1, [opts |-> <<>>, pos |-> <<>>, bad |-> FALSE])

\* The values given to one flag, in order.
RECURSIVE OptValues(_, _)
OptValues(opts, flag) ==
    IF opts = <<>> THEN <<>>
    ELSE (IF Head(opts)[1] = flag THEN <<Head(opts)[2]>> ELSE <<>>)
         \o OptValues(Tail(opts), flag)

\* A port specifier the engine accepts starts with a number; a volume is an absolute path.
PortOk(p) == p # <<>> /\ p[1] \in {"80", "443"}
VolumeOk(v) == v # <<>> /\ v[1] = "/"

\* A set of (key, value) pairs with the pair kv set, replacing the key's earlier value.
SetKV(pairs, kv) == {p \in pairs : p[1] # kv[1]} \cup {kv}

\* One option of `buildah config` applied to a container's configuration.
ApplyOpt(cfg, opt) ==
    IF opt[1] = Flag("--workingdir") THEN [cfg EXCEPT !.workingdir = opt[2]]
    ELSE IF opt[1] = Flag("-e") THEN [cfg EXCEPT !.env = SetKV(@, ParseKV(opt[2]))]
    ELSE IF opt[1] = Flag("-l") THEN [cfg EXCEPT !.labels = SetKV(@, ParseKV(opt[2]))]
    ELSE IF opt[1] = Flag("--user") THEN [cfg EXCEPT !.user = opt[2]]
    ELSE IF opt[1] = Flag("--cmd") THEN [cfg EXCEPT !.cmd = opt[2]]
    ELSE IF opt[1] = Flag("-p") THEN [cfg EXCEPT !.ports = @ \cup {opt[2]}]
    ELSE [cfg EXCEPT !.volumes = @ \cup {opt[2]}]

RECURSIVE ApplyOpts(_, _)
ApplyOpts(cfg, opts) ==
    IF opts = <<>> THEN cfg ELSE ApplyOpts(ApplyOpt(cfg, Head(opts)), Tail(opts))

\* A new working container of the image, named name, with the bind-mounts; it
\* starts with the image's configuration and no provisioning run.
FromImage(e, image, name, mounts) ==
    ExecOk([e EXCEPT !.containers =
                Put(@, name, [image |-> image, mounts |-> mounts,
                              config |-> LocalImage(e, image).config, ranAs |-> {}])],
           name)

FromNamed(e, image, names, mounts) ==
    IF names = <<>> THEN ExecFail(e, 125, "usage")
    ELSE IF names[Len(names)] \in DOMAIN e.containers THEN ExecFail(e, 125, "name in use")
    ELSE IF ~Obtainable(e, image) THEN ExecFail(e, 125, "unknown image")
    ELSE FromImage(Obtained(e, image), image, names[Len(names)], mounts)

FromParsed(e, p) ==
    IF p.bad \/ Len(p.pos) # 1 THEN ExecFail(e, 125, "usage")
    ELSE FromNamed(e, p.pos[1], OptValues(p.opts, Flag("--name")),
                   OptValues(p.opts, Flag("-v")))

\* buildah from [-v MOUNT]... --name NAME IMAGE
ExecFrom(e, args) == FromParsed(e, Parsed(args, FromFlags))

ConfigChecked(e, name, opts, ports, vols) ==
    IF name \notin DOMAIN e.containers THEN ExecFail(e, 125, "no such container")
    ELSE IF \E i \in 1..Len(ports) : ~PortOk(ports[i]) THEN ExecFail(e, 125, "bad port")
    ELSE IF \E i \in 1..Len(vols) : ~VolumeOk(vols[i]) THEN ExecFail(e, 125, "bad volume")
    ELSE ExecOk([e EXCEPT !.containers[name].config = ApplyOpts(@, opts)], <<>>)

ConfigParsed(e, p) ==
    IF p.bad \/ Len(p.pos) # 1 THEN ExecFail(e, 125, "usage")
    ELSE ConfigChecked(e, p.pos[1], p.opts, OptValues(p.opts, Flag("-p")),
                       OptValues(p.opts, Flag("-v")))

\* buildah config [OPTION VALUE]... CONTAINER
ExecConfig(e, args) == ConfigParsed(e, Parsed(args, ConfigFlags))

\* buildah commit CONTAINER IMAGE
ExecCommit(e, args) ==
    IF Len(args) # 2 THEN ExecFail(e, 125, "usage")
    ELSE IF args[1] \notin DOMAIN e.containers THEN ExecFail(e, 125, "no such container")
    ELSE ExecOk([e EXCEPT
                    !.images = Put(@, args[2],
                                   ImageRec(TRUE, CommitId(e.commits + 1),
                                            e.containers[args[1]].config)),
                    !.commits = @ + 1],
                CommitId(e.commits + 1))

\* buildah rm CONTAINER
ExecRm(e, args) ==
    IF Len(args) # 1 THEN ExecFail(e, 125, "usage")
    ELSE IF args[1] \notin DOMAIN e.containers THEN ExecFail(e, 1, "no such container")
    ELSE ExecOk([e EXCEPT !.containers = Drop(@, args[1])], args[1])

\* The metadata document `inspect` prints, as its (field, value) pairs in order.
ImageDoc(img) ==
    (IF img.hasId THEN << <<"FromImageID", Val(img.id)>> >> ELSE <<>>)
    \o << <<"OCIv1", Val(img.config)>> >>
ContainerDoc(name, c) ==
    << <<"Container", Val(name)>>, <<"FromImage", Val(c.image)>>, <<"OCIv1", Val(c.config)>> >>

\* buildah inspect -t TYPE ID
ExecInspect(e, args) ==
    IF Len(args) # 3 \/ args[1] # Flag("-t") THEN ExecFail(e, 125, "usage")
    ELSE IF args[2] = S("image") THEN
        IF IsLocal(e, args[3]) THEN ExecOk(e, ImageDoc(LocalImage(e, args[3])))
        ELSE ExecFail(e, 125, "no such image")
    ELSE IF args[2] = S("container") THEN
        IF args[3] \in DOMAIN e.containers
        THEN ExecOk(e, ContainerDoc(args[3], e.containers[args[3]]))
        ELSE ExecFail(e, 125, "no such container")
    ELSE ExecFail(e, 125, "usage")

\* podman pull IMAGE
ExecPull(e, args) ==
    IF Len(args) # 1 THEN ExecFail(e, 125, "usage")
    ELSE IF args[1] \notin Registry THEN ExecFail(e, 125, "unknown image")
    ELSE ExecOk(Pulled(e, args[1]), args[1])

\* podman run --rm IMAGE ls PATH: a throwaway run of the image.
ExecRun(e, args) ==
    IF Len(args) # 4 \/ args[1] # Flag("--rm") \/ args[3] # S("ls")
    THEN ExecFail(e, 125, "usage")
    ELSE IF ~Obtainable(e, args[2]) THEN ExecFail(e, 125, "unknown image")
    ELSE IF args[4] \in imageFiles THEN ExecOk(Obtained(e, args[2]), args[4])
    ELSE ExecFail(Obtained(e, args[2]), 2, "No such file or directory")

\* One external command run to its end: the binary, the subcommand, its arguments.
ExecSub(e, bin, sub, args) ==
    IF bin = Buildah THEN
        IF sub = S("from") THEN ExecFrom(e, args)
        ELSE IF sub = S("config") THEN ExecConfig(e, args)
        ELSE IF sub = S("commit") THEN ExecCommit(e, args)
        ELSE IF sub = S("rm") THEN ExecRm(e, args)
        ELSE IF sub = S("inspect") THEN ExecInspect(e, args)
        ELSE ExecFail(e, 125, "usage")
    ELSE IF sub = S("pull") THEN ExecPull(e, args)
    ELSE IF sub = S("run") THEN ExecRun(e, args)
    ELSE ExecFail(e, 125, "usage")

Exec(e, argv) == ExecSub(e, argv[1], argv[2], SubSeq(argv, 3, Len(argv)))

(***************************** ansible_bender.utils *************************)
(* run_cmd, graceful_get, buildah_command_exists and podman_command_exists  *)
(* are imported from ansible_bender.utils; they are modelled from sections  *)
(* 4.1, 4.2 and 4.5 of the specification.                                   *)
(*                                                                         *)
(* A Python call is an operator from a world to an outcome.  The world is   *)
(* the engine's storage together with what the running operation has done  *)
(* so far: the external commands it issued (each with its exit status, its  *)
(* stderr and the binaries the instance had verified when it was issued),   *)
(* its calls of configure_buildah_container, and the binaries verified.     *)
(* The outcome is the world after the call, the exception raised (NoExc     *)
(* when the call returned) and the value returned.  A value computed once   *)
(* and used several times is handed on as an operator's argument.           *)

NoExc == [type |-> "", detail |-> <<>>]
Exc(type, detail) == [type |-> type, detail |-> detail]
\* The specification's names of the failures.
ExternalCommandFailed == "CalledProcessError"
DependencyMissing == "DependencyMissing"
NoInterpreterFound == "RuntimeError"
\* What the process layer raises when the binary of a command cannot be started.
BinaryNotStarted == "FileNotFoundError"

Ret(w, v) == [w |-> w, exc |-> NoExc, ret |-> v]
Raise(w, e) == [w |-> w, exc |-> e, ret |-> None]
Raised(r) == r.exc # NoExc
\* The exception of the call r propagates; when it returned, the caller returns v.
Returning(r, v) == IF Raised(r) THEN r ELSE Ret(r.w, v)

World(e, chk) == [eng |-> e, cmds |-> <<>>, calls |-> <<>>, checked |-> chk]

\* The world once the command cmd ran with result r.
Logged(w, cmd, r) ==
    [w EXCEPT !.eng = r.eng,
              !.cmds = Append(@, [argv |-> cmd, rc |-> r.rc, err |-> r.err,
                                  verified |-> w.checked])]

\* A non-zero exit raises CalledProcessError carrying the captured stderr.
Completed(w, cmd, return_output, r) ==
    IF r.rc # 0 THEN Raise(Logged(w, cmd, r), Exc(ExternalCommandFailed, r.err))
    ELSE Ret(Logged(w, cmd, r), IF return_output THEN Val(r.out) ELSE None)

\* run_cmd(cmd, return_output=...)
run_cmd(w, cmd, return_output) ==
    IF cmd[1] \notin installed THEN Raise(w, Exc(BinaryNotStarted, cmd[1]))
    ELSE Completed(w, cmd, return_output, Exec(w.eng, cmd))

\* The index of the last pair of doc whose field is k.
LastOf(doc, k) ==
    CHOOSE i \in 1..Len(doc) : doc[i][1] = k /\ \A j \in (i + 1)..Len(doc) : doc[j][1] # k

\* json.loads of the document inspect printed: a dict, the last value of a key kept.
json_loads(out) ==
    Val([k \in {out.val[i][1] : i \in 1..Len(out.val)} |-> out.val[LastOf(out.val, k)][2]])

\* graceful_get(d, key): the value at key, None when d is None or lacks the key.
graceful_get(d, key) ==
    IF d = None THEN None
    ELSE IF key \notin DOMAIN d.val THEN None
    ELSE d.val[key]

\* buildah_command_exists(): raises when the build engine is not resolvable.
buildah_command_exists(w) ==
    IF Buildah \notin installed THEN Raise(w, Exc(DependencyMissing, Buildah))
    ELSE Ret([w EXCEPT !.checked = @ \cup {Buildah}], None)

\* podman_command_exists(): raises when the run engine is not resolvable.
podman_command_exists(w) ==
    IF Podman \notin installed THEN Raise(w, Exc(DependencyMissing, Podman))
    ELSE Ret([w EXCEPT !.checked = @ \cup {Podman}], None)

(***************************** buildah_builder.py: functions ****************)

\* inspect_buildah_resource without its except clause.
InspectedWithoutExcept(i) ==
    IF Raised(i) THEN i ELSE Ret(i.w, json_loads(i.ret))

\* What inspect_buildah_resource makes of run_cmd's outcome i.
Inspected(i) ==
    IF i.exc.type = ExternalCommandFailed THEN Ret(i.w, None)
    ELSE IF Raised(i) THEN i
    ELSE Ret(i.w, json_loads(i.ret))

inspect_buildah_resource(w, resource_type, resource_id) ==
    Inspected(run_cmd(w, <<Buildah, S("inspect"), Flag("-t"), resource_type, resource_id>>,
                      TRUE))

\* return graceful_get(metadata, key)
GetField(metadata, key) ==
    IF Raised(metadata) THEN metadata
    ELSE Ret(metadata.w, graceful_get(metadata.ret, key))

get_buildah_image_id(w, container_image) ==
    GetField(inspect_buildah_resource(w, S("image"), container_image), "FromImageID")

pull_buildah_image(w, container_image) ==
    Returning(run_cmd(w, <<Podman, S("pull"), container_image>>, FALSE), None)

podman_run_cmd(w, container_image, cmd) ==
    run_cmd(w, <<Podman, S("run"), Flag("--rm"), container_image>> \o cmd, FALSE)

buildah(w, command, args_and_opts) ==
    run_cmd(w, <<Buildah, command>> \o args_and_opts, FALSE)

\* The arguments create_buildah_container gives `buildah from`.
FromArgs(container_image, container_name, build_volumes) ==
    (IF Truthy(build_volumes) THEN <<Flag("-v")>> \o build_volumes ELSE <<>>)
    \o <<Flag("--name"), container_name, container_image>>

create_buildah_container(w, container_image, container_name, build_volumes) ==
    Returning(buildah(w, S("from"), FromArgs(container_image, container_name, build_volumes)),
              None)

\* for k, v in d.items(): config_args += [flag, "%s=%s" % (k, v)]
RECURSIVE KVArgs(_, _)
KVArgs(flag, items) ==
    IF items = <<>> THEN <<>>
    ELSE <<flag, FormatKV(Head(items)[1], Head(items)[2])>> \o KVArgs(flag, Tail(items))

\* for x in xs: config_args += [flag, x]
RECURSIVE EachArgs(_, _)
EachArgs(flag, xs) ==
    IF xs = <<>> THEN <<>>
    ELSE <<flag, Head(xs)>> \o EachArgs(flag, Tail(xs))

\* The keyword arguments of a call of configure_buildah_container; a keyword
\* left out has its default, None, which is as falsy as the empty value.
NoKw ==
    [working_dir |-> <<>>, env_vars |-> <<>>, labels |-> <<>>, user |-> <<>>,
     cmd |-> <<>>, ports |-> <<>>, volumes |-> <<>>]

\* config_args as configure_buildah_container builds them.
ConfigArgs(kw) ==
    (IF Truthy(kw.working_dir) THEN <<Flag("--workingdir"), kw.working_dir>> ELSE <<>>)
    \o (IF Truthy(kw.env_vars) THEN KVArgs(Flag("-e"), kw.env_vars) ELSE <<>>)
    \o (IF Truthy(kw.labels) THEN KVArgs(Flag("-l"), kw.labels) ELSE <<>>)
    \o (IF Truthy(kw.user) THEN <<Flag("--user"), kw.user>> ELSE <<>>)
    \o (IF Truthy(kw.cmd) THEN <<Flag("--cmd"), kw.cmd>> ELSE <<>>)
    \o (IF Truthy(kw.ports) THEN EachArgs(Flag("-p"), kw.ports) ELSE <<>>)
    \o (IF Truthy(kw.volumes) THEN EachArgs(Flag("-v"), kw.volumes) ELSE <<>>)

\* The world with the call of configure_buildah_container recorded: its
\* arguments, and how many commands the operation had issued before it.
Called(w, container_name, kw) ==
    [w EXCEPT !.calls = Append(@, [container |-> container_name, kw |-> kw,
                                   after |-> Len(w.cmds)])]

\* configure_buildah_container issuing its command whatever config_args holds.
ConfigureAlways(w, container_name, config_args) ==
    Returning(buildah(w, S("config"), config_args \o <<container_name>>), Val(container_name))

\* if config_args: buildah("config", config_args + [container_name]); return container_name
Configure(w, container_name, config_args) ==
    IF Truthy(config_args)
    THEN Returning(buildah(w, S("config"), config_args \o <<container_name>>),
                   Val(container_name))
    ELSE Ret(w, Val(container_name))

configure_buildah_container(w, container_name, kw) ==
    Configure(Called(w, container_name, kw), container_name, ConfigArgs(kw))

(***************************** BuildahBuilder *******************************)
\* One container name for every instance.
ansible_hostShared(b) == S("working") \o S("-cont")

\* self.ansible_host = self.target_image + "-cont"
ansible_host(b) == build[b].target_image \o S("-cont")

\* __init__: the instance exists when it returns.
BuilderInit(w, b) == buildah_command_exists(w)

\* create() handing the run-as user over together with the first-phase values.
CreateKwWithUser(md) ==
    [NoKw EXCEPT !.working_dir = md.working_dir, !.env_vars = md.env_vars,
                 !.ports = md.ports, !.labels = md.labels, !.user = md.user]

\* The keyword arguments create() gives configure_buildah_container.
CreateKw(md) ==
    [NoKw EXCEPT !.working_dir = md.working_dir, !.env_vars = md.env_vars,
                 !.ports = md.ports, !.labels = md.labels]

\* The image create() builds the working container from.
CreateImage(b) == build[b].base_layer

\* create() removing the working container when its configuration fails.
RolledBack(c, b) ==
    IF Raised(c)
    THEN [w |-> buildah(c.w, S("rm"), <<ansible_host(b)>>).w, exc |-> c.exc, ret |-> None]
    ELSE Ret(c.w, None)

CreateConfigureRollingBack(r1, b) ==
    IF Raised(r1) THEN r1
    ELSE RolledBack(configure_buildah_container(r1.w, ansible_host(b),
                                                CreateKw(build[b].metadata)), b)

\* The rest of create() once create_buildah_container ended as r1.
CreateConfigure(r1, b) ==
    IF Raised(r1) THEN r1
    ELSE Returning(configure_buildah_container(r1.w, ansible_host(b),
                                               CreateKw(build[b].metadata)),
                   None)

\* create() removing a working container that is in its way.
createReplacing(w, b, build_volumes) ==
    CreateConfigure(
        create_buildah_container(buildah(w, S("rm"), <<ansible_host(b)>>).w, CreateImage(b),
                                 ansible_host(b), build_volumes), b)

create(w, b, build_volumes) ==
    CreateConfigure(
        create_buildah_container(w, CreateImage(b), ansible_host(b), build_volumes), b)

\* clean() removing a container named like the image, and ignoring the failure.
cleanOfTarget(w, b) == Ret(buildah(w, S("rm"), <<build[b].target_image>>).w, None)

clean(w, b) == Returning(buildah(w, S("rm"), <<ansible_host(b)>>), None)

\* swap_working_container creating the new container with a bind-mount.
SwapVolumesKept == <<Mount1>>

\* The bind-mounts swap_working_container gives create(): none.
SwapVolumes == <<>>

\* The rest of swap_working_container() once clean() ended as r1.
SwapCreate(r1, b) == IF Raised(r1) THEN r1 ELSE create(r1.w, b, SwapVolumes)

swap_working_container(w, b) == SwapCreate(clean(w, b), b)

\* commit() handing over the default command and the volumes but not the user.
CommitKwWithoutUser(md) ==
    [NoKw EXCEPT !.cmd = md.cmd, !.volumes = md.volumes]

\* The keyword arguments commit() gives configure_buildah_container.
CommitKw(md) ==
    [NoKw EXCEPT !.user = md.user, !.cmd = md.cmd, !.volumes = md.volumes]

\* commit() making its configuration call for every build.
CommitConfiguresAlways(md) == TRUE

\* if self.build.metadata.user or self.build.metadata.cmd or self.build.metadata.volumes
CommitConfigures(md) == Truthy(md.user) \/ Truthy(md.cmd) \/ Truthy(md.volumes)

get_image_id(w, image_name) == get_buildah_image_id(w, image_name)

\* commit() asking the identity of the build's target image.
CommitResultRefOfTarget(b, image_name) == build[b].target_image

\* The reference commit() asks the identity of.
CommitResultRef(b, image_name) == image_name

\* return self.get_image_id(image_name), once `buildah commit` ended as r2.
CommitResult(r2, b, image_name) ==
    IF Raised(r2) THEN r2 ELSE get_image_id(r2.w, CommitResultRef(b, image_name))

\* commit() going on to `buildah commit` after a configuration that failed.
CommitContainerRegardless(r1, b, image_name) ==
    CommitResult(buildah(r1.w, S("commit"), <<ansible_host(b), image_name>>), b, image_name)

\* buildah("commit", [self.ansible_host, image_name]), once the configuration ended as r1.
CommitContainer(r1, b, image_name) ==
    IF Raised(r1) THEN r1
    ELSE CommitResult(buildah(r1.w, S("commit"), <<ansible_host(b), image_name>>),
                      b, image_name)

commit(w, b, image_name) ==
    CommitContainer(
        IF CommitConfigures(build[b].metadata)
        THEN configure_buildah_container(w, ansible_host(b), CommitKw(build[b].metadata))
        ELSE Ret(w, None),
        b, image_name)

\* bool(x) of an optional string.
Bool(x) == x # None /\ Truthy(x.val)

\* return bool(r)
Present(r) == IF Raised(r) THEN r ELSE Ret(r.w, Val(Bool(r.ret)))

is_image_present(w, image_reference) == Present(get_image_id(w, image_reference))

\* pull() issuing the pull command whatever podman_command_exists() found.
PullImageUnverified(r1, b) == pull_buildah_image(r1.w, build[b].base_image)

\* pull_buildah_image(self.build.base_image), once podman_command_exists() ended as r1.
PullImage(r1, b) == IF Raised(r1) THEN r1 ELSE pull_buildah_image(r1.w, build[b].base_image)

pull(w, b) == PullImage(podman_command_exists(w), b)

\* The loop of find_python_interpreter from candidate i on; Probed is the
\* loop's body once the probe of candidate i ended as r.
RECURSIVE FindFrom(_, _, _)
RECURSIVE Probed(_, _, _)
\* The loop giving up at the first candidate that is not there.
ProbedGivingUp(r, b, i) ==
    IF r.exc.type = ExternalCommandFailed
    THEN Raise(r.w, Exc(NoInterpreterFound, build[b].base_image))
    ELSE IF Raised(r) THEN r
    ELSE Ret(r.w, Val(python_interpr_prio[i]))

Probed(r, b, i) ==
    IF r.exc.type = ExternalCommandFailed THEN FindFrom(r.w, b, i + 1)
    ELSE IF Raised(r) THEN r
    ELSE Ret(r.w, Val(python_interpr_prio[i]))

FindFrom(w, b, i) ==
    IF i > Len(python_interpr_prio)
    THEN Raise(w, Exc(NoInterpreterFound, build[b].base_image))
    ELSE Probed(podman_run_cmd(w, build[b].base_image, <<S("ls"), python_interpr_prio[i]>>),
                b, i)

find_python_interpreter(w, b) == FindFrom(w, b, 1)

(***************************** the state machine ****************************)
\* A build with everything declared, every value one the engine accepts.
RichMetadata ==
    [working_dir |-> <<"/", "w">>,
     env_vars |-> << <<S("A"), <<"x", "=", "y">> >>, <<S("B"), EmptyStr>> >>,
     labels |-> << <<S("L"), S("v")>> >>,
     ports |-> <<S("80")>>, user |-> S("app"), cmd |-> S("sh"),
     volumes |-> << <<"/", "data">> >>]

Build(base_image, base_layer, target_image, md) ==
    [base_image |-> base_image, base_layer |-> base_layer,
     target_image |-> target_image, metadata |-> md]

NoOp ==
    [inst |-> 0, op |-> "", args |-> <<>>, exc |-> NoExc, ret |-> None,
     cmds |-> <<>>, calls |-> <<>>]

\* Where an instance stands, by its calls of create, clean and
\* swap_working_container.  "created": the latest was a create(vols) that
\* succeeded; "cleaned": a clean() that succeeded, next after such a create;
\* "restarted": a create(vols) that succeeded, next after such a clean;
\* "swapped": a swap, next after a create(vols) that succeeded; "new": none yet.
Phase(at, vols) == [at |-> at, vols |-> vols]
OtherPhase == Phase("other", <<>>)

\* Every build specification on a host with both engines and a base image
\* that holds /usr/bin/python only.
InitBuilds ==
    /\ installed = Binaries
    /\ imageFiles = {Python}
    /\ \E md \in Metadatas : build = [b \in {1} |-> Build(Fedora, Fedora, Targets[1], md)]

\* Every host: any of the two engines missing, any set of interpreters in the
\* base image, the base layer the base image, another image or no image at all.
InitHosts ==
    \/ /\ installed \in SUBSET Binaries
       /\ imageFiles \in SUBSET Range(python_interpr_prio)
       /\ build = [b \in {1} |-> Build(Fedora, Fedora, Targets[1], RichMetadata)]
    \/ /\ installed = Binaries
       /\ imageFiles = {Python}
       /\ \E layer \in {Alpine, S("gone")} :
              build = [b \in {1} |-> Build(Fedora, layer, Targets[1], RichMetadata)]

\* A build that declares a working directory and nothing else.
PlainMetadata ==
    [working_dir |-> <<"/", "w">>, env_vars |-> <<>>, labels |-> <<>>, ports |-> <<>>,
     user |-> EmptyStr, cmd |-> EmptyStr, volumes |-> <<>>]

\* Two instances with different target images, on a host with the build
\* engine only: every command that touches a container is the build engine's.
InitPair ==
    /\ installed = {Buildah}
    /\ imageFiles = {Python}
    /\ build = [b \in Instances |-> Build(Fedora, Fedora, Targets[b], PlainMetadata)]

\* What holds of every initial state, whatever the host and the builds.
InitRest ==
    /\ constructed = {}
    /\ eng = InitEng
    /\ checked = [b \in DOMAIN build |-> {}]
    /\ last = NoOp
    /\ phase = [b \in DOMAIN build |-> Phase("new", <<>>)]
    /\ commitCalled = [b \in DOMAIN build |-> FALSE]

Static == UNCHANGED <<installed, imageFiles, build>>

\* Whether the operation's `buildah from` succeeded: a new working container exists.
FromSucceeded(r) ==
    \E i \in 1..Len(r.w.cmds) : r.w.cmds[i].argv[2] = S("from") /\ r.w.cmds[i].rc = 0

\* What every operation of instance b leaves behind: the storage as the
\* commands left it, the binaries verified, and the record of the operation.
Finish(b, op, args, r) ==
    /\ eng' = r.w.eng
    /\ checked' = [checked EXCEPT ![b] = r.w.checked]
    /\ last' = [inst |-> b, op |-> op, args |-> args, exc |-> r.exc, ret |-> r.ret,
                cmds |-> r.w.cmds, calls |-> r.w.calls]
    /\ Static

\* BuildahBuilder(build)
Constructed(b, r) ==
    /\ Finish(b, "__init__", <<>>, r)
    /\ constructed' = IF Raised(r) THEN constructed ELSE constructed \cup {b}

Construct(b) ==
    /\ b \in DOMAIN build
    /\ b \notin constructed
    /\ Constructed(b, BuilderInit(World(eng, checked[b]), b))
    /\ UNCHANGED <<phase, commitCalled>>

\* builder.create(build_volumes)
Created(b, build_volumes, r) ==
    /\ Finish(b, "create", build_volumes, r)
    /\ phase' = [phase EXCEPT ![b] =
                    IF Raised(r) THEN OtherPhase
                    ELSE IF @.at = "cleaned" THEN Phase("restarted", build_volumes)
                    ELSE Phase("created", build_volumes)]
    /\ commitCalled' = [commitCalled EXCEPT ![b] = IF FromSucceeded(r) THEN FALSE ELSE @]

Create(b, build_volumes) ==
    /\ b \in constructed
    /\ Created(b, build_volumes, create(World(eng, checked[b]), b, build_volumes))
    /\ UNCHANGED constructed

\* The provisioning executor runs in the working container, as the
\* container's configured user.
Provision(b) ==
    /\ b \in constructed
    /\ ansible_host(b) \in DOMAIN eng.containers
    /\ eng' = [eng EXCEPT !.containers[ansible_host(b)].ranAs =
                   @ \cup {eng.containers[ansible_host(b)].config.user}]
    /\ last' = [NoOp EXCEPT !.inst = b, !.op = "provision"]
    /\ Static
    /\ UNCHANGED <<constructed, checked, phase, commitCalled>>

\* builder.commit(image_name)
Commit(b, image_name) ==
    /\ b \in constructed
    /\ eng.commits < MaxCommits
    /\ Finish(b, "commit", <<image_name>>, commit(World(eng, checked[b]), b, image_name))
    /\ commitCalled' = [commitCalled EXCEPT ![b] = TRUE]
    /\ UNCHANGED <<constructed, phase>>

\* builder.clean()
Cleaned(b, r) ==
    /\ Finish(b, "clean", <<>>, r)
    /\ phase' = [phase EXCEPT ![b] =
                    IF ~Raised(r) /\ @.at \in {"created", "restarted"}
                    THEN Phase("cleaned", @.vols)
                    ELSE OtherPhase]

Clean(b) ==
    /\ b \in constructed
    /\ Cleaned(b, clean(World(eng, checked[b]), b))
    /\ UNCHANGED <<constructed, commitCalled>>

\* builder.swap_working_container()
Swapped(b, r) ==
    /\ Finish(b, "swap", <<>>, r)
    /\ phase' = [phase EXCEPT ![b] =
                    IF @.at \in {"created", "restarted"} THEN Phase("swapped", @.vols)
                    ELSE OtherPhase]
    /\ commitCalled' = [commitCalled EXCEPT ![b] = IF FromSucceeded(r) THEN FALSE ELSE @]

Swap(b) ==
    /\ b \in constructed
    /\ Swapped(b, swap_working_container(World(eng, checked[b]), b))
    /\ UNCHANGED constructed

\* The image references callers ask about.
RefChoices == Range(Targets) \cup {Legacy, Blank}

\* builder.get_image_id(image_name)
GetImageId(b, ref) ==
    /\ b \in constructed
    /\ Finish(b, "get_image_id", <<ref>>, get_image_id(World(eng, checked[b]), ref))
    /\ UNCHANGED <<constructed, phase, commitCalled>>

\* builder.is_image_present(image_reference)
IsImagePresent(b, ref) ==
    /\ b \in constructed
    /\ Finish(b, "is_image_present", <<ref>>, is_image_present(World(eng, checked[b]), ref))
    /\ UNCHANGED <<constructed, phase, commitCalled>>

\* builder.pull()
Pull(b) ==
    /\ b \in constructed
    /\ Finish(b, "pull", <<>>, pull(World(eng, checked[b]), b))
    /\ UNCHANGED <<constructed, phase, commitCalled>>

\* builder.find_python_interpreter()
FindPythonInterpreter(b) ==
    /\ b \in constructed
    /\ Finish(b, "find_python_interpreter", <<>>,
              find_python_interpreter(World(eng, checked[b]), b))
    /\ UNCHANGED <<constructed, phase, commitCalled>>

Next ==
    \/ \E b \in Instances : Construct(b)
    \/ \E b \in Instances, v \in BuildVolumeChoices : Create(b, v)
    \/ \E b \in Instances : Provision(b)
    \/ \E b \in Instances, n \in Range(Targets) : Commit(b, n)
    \/ \E b \in Instances : Clean(b)
    \/ \E b \in Instances : Swap(b)
    \/ \E b \in Instances, ref \in RefChoices : GetImageId(b, ref)
    \/ \E b \in Instances, ref \in RefChoices : IsImagePresent(b, ref)
    \/ \E b \in Instances : Pull(b)
    \/ \E b \in Instances : FindPythonInterpreter(b)

\* Every build specification, on the usual host.
Init == InitBuilds /\ InitRest
Spec == Init /\ [][Next]_vars

\* Every host, for one build specification.
HostsInit == InitHosts /\ InitRest
SpecHosts == HostsInit /\ [][Next]_vars

\* Two instances at work on one engine, their operations interleaved.
PairInit == InitPair /\ InitRest
SpecPair == PairInit /\ [][Next]_vars

(***************************** properties ***********************************)
\* The set of the (key, value) pairs of a dict.
Pairs(d) == {<<d[i][1], d[i][2]>> : i \in 1..Len(d)}

\* The configuration a container built from a bare image has once the
\* specification's first-phase values, and only those, are applied.
Phase1Config(md) ==
    [EmptyConfig EXCEPT !.workingdir = md.working_dir, !.env = Pairs(md.env_vars),
                        !.labels = Pairs(md.labels), !.ports = Range(md.ports)]

HasContainer(b) == ansible_host(b) \in DOMAIN eng.containers
Container(b) == eng.containers[ansible_host(b)]

\* The last operation was op of instance b.
Ran(b, op) == last.inst = b /\ last.op = op
RanOk(b, op) == Ran(b, op) /\ last.exc = NoExc

\* The positions in cmds of the commands `<binary> <command> ...`.
Issued(cmds, command) == {i \in 1..Len(cmds) : cmds[i].argv[2] = S(command)}

\* The flags among the arguments of a command.
FlagsOf(argv) == {argv[i] : i \in 1..Len(argv)} \cap ConfigFlags

\* C1: a create() that succeeded issued `buildah from` and then made exactly
\* one call of configure_buildah_container, which carried the specification's
\* working directory, environment variables, exposed ports and labels and
\* none of user, default command and volumes; the working container holds
\* exactly those first-phase values.
CreateAppliesPhaseOneOnly ==
    \A b \in DOMAIN build :
        RanOk(b, "create") =>
            /\ Len(last.calls) = 1
            /\ last.calls[1].container = ansible_host(b)
            /\ last.calls[1].after = 1
            /\ last.calls[1].kw.working_dir = build[b].metadata.working_dir
            /\ last.calls[1].kw.env_vars = build[b].metadata.env_vars
            /\ last.calls[1].kw.ports = build[b].metadata.ports
            /\ last.calls[1].kw.labels = build[b].metadata.labels
            /\ ~Truthy(last.calls[1].kw.user)
            /\ ~Truthy(last.calls[1].kw.cmd)
            /\ ~Truthy(last.calls[1].kw.volumes)
            /\ Issued(last.cmds, "from") = {1}
            /\ Issued(last.cmds, "config") = 2..Len(last.cmds)
            /\ Len(last.cmds) <= 2
            /\ \A i \in Issued(last.cmds, "config") :
                   FlagsOf(last.cmds[i].argv) \cap
                       {Flag("--user"), Flag("--cmd"), Flag("-v")} = {}
            /\ HasContainer(b)
            /\ Container(b).config = Phase1Config(build[b].metadata)

\* C1's case: create() succeeded for a build that declares all seven fields.
CreateWithEverythingDeclared ==
    /\ RanOk(1, "create")
    /\ Declared1(build[1].metadata) = 4
    /\ Declared2(build[1].metadata) = 3
    /\ Len(last.cmds) = 2
    /\ Container(1).config.env # {}
    /\ Container(1).config.user = EmptyStr

\* C2: between create() and the call of commit() the working container has no
\* user, default command or volumes, and whatever ran in it ran as the
\* default user; a commit() that succeeded applied the declared ones in a
\* configuration call that came before the engine's commit command, and the
\* committed image has them.
FinishingMetadataOnlyAtCommit ==
    \A b \in DOMAIN build :
        /\ (HasContainer(b) /\ ~commitCalled[b]) =>
               /\ Container(b).config.user = EmptyStr
               /\ Container(b).config.cmd = EmptyStr
               /\ Container(b).config.volumes = {}
               /\ Container(b).ranAs \subseteq {EmptyStr}
        /\ RanOk(b, "commit") =>
               /\ Issued(last.cmds, "commit") = {Len(last.cmds) - 1}
               /\ \A i \in Issued(last.cmds, "config") : i < Len(last.cmds) - 1
               /\ \A i \in 1..Len(last.calls) : last.calls[i].after = 0
               /\ last.args[1] \in DOMAIN eng.images
               /\ eng.images[last.args[1]].config.user = build[b].metadata.user
               /\ eng.images[last.args[1]].config.cmd = build[b].metadata.cmd
               /\ eng.images[last.args[1]].config.volumes = Range(build[b].metadata.volumes)

\* C2's case: provisioning ran as the default user in a container whose build
\* declares a user, and the commit() that followed produced an image with it.
CommittedWithDeclaredUser ==
    /\ RanOk(1, "commit")
    /\ build[1].metadata.user # EmptyStr
    /\ HasContainer(1)
    /\ Container(1).ranAs = {EmptyStr}
    /\ last.args[1] \in DOMAIN eng.images
    /\ eng.images[last.args[1]].config.user = build[1].metadata.user
    /\ Issued(last.cmds, "config") = {1}

\* C3: clean() never raises, and the working container is absent after it.
CleanNeverRaises ==
    \A b \in DOMAIN build :
        Ran(b, "clean") => last.exc = NoExc /\ ~HasContainer(b)

\* C4: every external command is issued by an instance that has verified
\* both engine binaries, and on a host that lacks one of them an operation
\* issues no command and fails with DependencyMissing.
EnginesVerifiedBeforeAnyCommand ==
    /\ \A i \in 1..Len(last.cmds) : last.cmds[i].verified = Binaries
    /\ (last.op \notin {"", "provision"} /\ installed # Binaries) =>
           last.cmds = <<>> /\ last.exc.type = DependencyMissing

\* C5: get_image_id never raises: it returns None for a reference that names
\* no image (the inspect command failed) and for an image whose metadata
\* lacks the identity field, and the identity otherwise.
GetImageIdNeverRaises ==
    \A b \in DOMAIN build :
        Ran(b, "get_image_id") =>
            /\ last.exc = NoExc
            /\ Len(last.cmds) = 1
            /\ last.cmds[1].argv =
                   <<Buildah, S("inspect"), Flag("-t"), S("image"), last.args[1]>>
            /\ IF last.args[1] \notin DOMAIN eng.images
               THEN last.cmds[1].rc # 0 /\ last.ret = None
               ELSE /\ last.cmds[1].rc = 0
                    /\ last.ret = IF eng.images[last.args[1]].hasId
                                  THEN Val(eng.images[last.args[1]].id)
                                  ELSE None

\* C5's case: the identity of a reference that names no image was asked.
AskedIdOfMissingImage ==
    /\ RanOk(1, "get_image_id")
    /\ last.args[1] \notin DOMAIN eng.images
    /\ last.cmds[1].rc # 0
    /\ last.ret = None

\* The probe find_python_interpreter makes of candidate i.
ProbeOf(b, i) ==
    <<Podman, S("run"), Flag("--rm"), build[b].base_image, S("ls"), python_interpr_prio[i]>>

\* C6: find_python_interpreter probes the candidates in priority order, each
\* at most once and none after a probe that succeeded; it returns the first
\* candidate that exists in the base image and raises NoInterpreterFound,
\* after probing all of them, when none exists.
FindsFirstInterpreter ==
    \A b \in DOMAIN build :
        Ran(b, "find_python_interpreter") =>
            /\ Len(last.cmds) <= Len(python_interpr_prio)
            /\ \A i \in 1..Len(last.cmds) :
                   /\ last.cmds[i].argv = ProbeOf(b, i)
                   /\ (last.cmds[i].rc = 0) <=> (python_interpr_prio[i] \in imageFiles)
                   /\ i < Len(last.cmds) => last.cmds[i].rc # 0
            /\ Podman \in installed =>
                   IF \E i \in 1..Len(python_interpr_prio) : python_interpr_prio[i] \in imageFiles
                   THEN /\ last.exc = NoExc
                        /\ last.cmds # <<>>
                        /\ last.cmds[Len(last.cmds)].rc = 0
                        /\ last.ret = Val(python_interpr_prio[Len(last.cmds)])
                   ELSE /\ last.exc = Exc(NoInterpreterFound, build[b].base_image)
                        /\ Len(last.cmds) = Len(python_interpr_prio)

\* C6's case: only the third candidate exists; it is returned after two
\* probes that failed.
FoundThirdCandidate ==
    /\ RanOk(1, "find_python_interpreter")
    /\ imageFiles = {python_interpr_prio[3]}
    /\ Len(last.cmds) = 3
    /\ last.cmds[1].rc # 0
    /\ last.cmds[2].rc # 0
    /\ last.ret = Val(python_interpr_prio[3])

\* C7: when the engine rejects the configuration command of create(), create()
\* raises ExternalCommandFailed with the command's stderr, removes nothing,
\* and the working container `buildah from` made is still there.
ConfigFailureLeavesContainer ==
    \A b \in DOMAIN build :
        (Ran(b, "create") /\ \E i \in Issued(last.cmds, "config") : last.cmds[i].rc # 0) =>
            /\ Len(last.cmds) = 2
            /\ Issued(last.cmds, "from") = {1}
            /\ last.cmds[1].rc = 0
            /\ last.cmds[2].err # EmptyStr
            /\ last.exc = Exc(ExternalCommandFailed, last.cmds[2].err)
            /\ Issued(last.cmds, "rm") = {}
            /\ HasContainer(b)
            /\ Container(b).image = build[b].base_layer

\* C7's case: create() failed at its configuration command.
CreateFailedAtConfig ==
    /\ Ran(1, "create")
    /\ last.exc.type = ExternalCommandFailed
    /\ Len(last.cmds) = 2
    /\ last.cmds[2].argv[2] = S("config")
    /\ last.cmds[2].rc # 0
    /\ HasContainer(1)

\* C8: a commit() that succeeded returns the identity of the image it made
\* under image_name, which is not None and not empty, and a get_image_id of
\* the same name right after it returns the same value.
CommitReturnsIdentity ==
    /\ [](\A b \in DOMAIN build :
              RanOk(b, "commit") =>
                  /\ last.ret # None
                  /\ last.ret.val # EmptyStr
                  /\ last.args[1] \in DOMAIN eng.images
                  /\ eng.images[last.args[1]].hasId
                  /\ last.ret = Val(eng.images[last.args[1]].id)
                  /\ eng.images[last.args[1]].config = Container(b).config)
    /\ [][\A b \in DOMAIN build :
              (RanOk(b, "commit") /\ last'.inst = b /\ last'.op = "get_image_id"
               /\ last'.args = last.args) =>
                  last'.exc = NoExc /\ last'.ret = last.ret]_vars

\* C8's case: the identity of the image a commit() made, with the declared
\* user in it, was asked by name and is the one the engine gave the image.
AskedIdOfCommittedImage ==
    /\ RanOk(1, "get_image_id")
    /\ last.args[1] \in DOMAIN eng.images
    /\ eng.images[last.args[1]].id = CommitId(1)
    /\ eng.images[last.args[1]].config.user # EmptyStr
    /\ last.ret = Val(CommitId(1))

\* C9: after a create() that succeeded and then a clean() that succeeded,
\* whatever was provisioned or committed in between, the working container is
\* absent, and a further create() with no or one bind-mount succeeds and
\* leaves a new working container with the first-phase configuration; and so
\* again after every further round.
RestartAfterClean ==
    /\ [](\A b \in DOMAIN build : phase[b].at = "cleaned" => ~HasContainer(b))
    /\ [][\A b \in DOMAIN build :
              (phase[b].at = "cleaned" /\ last'.inst = b /\ last'.op = "create"
               /\ Len(last'.args) <= 1) =>
                  /\ last'.exc = NoExc
                  /\ ansible_host(b) \in DOMAIN eng'.containers
                  /\ eng'.containers[ansible_host(b)].config =
                         Phase1Config(build[b].metadata)
                  /\ eng'.containers[ansible_host(b)].mounts = last'.args
                  /\ eng'.containers[ansible_host(b)].ranAs = {}]_vars

\* C9's case: create(), clean() and create() again, with a bind-mount, for a
\* build that declares first-phase values, after a commit.
Restarted ==
    /\ RanOk(1, "create")
    /\ phase[1] = Phase("restarted", <<Mount1>>)
    /\ Declared1(build[1].metadata) = 4
    /\ eng.commits = 1
    /\ HasContainer(1)

\* clean() and then create() with no volumes, as two calls: the outcome of the
\* second when the first returned, with the commands of both.
Joined(c, d) == [d EXCEPT !.w.cmds = c.w.cmds \o @]
ThenCreate(c, b) ==
    IF Raised(c) THEN c ELSE Joined(c, create(World(c.w.eng, c.w.checked), b, <<>>))
CleanThenCreate(b) == ThenCreate(clean(World(eng, checked[b]), b), b)

\* The step's operation left what the two calls, ending as r, leave.
SameAs(r) ==
    /\ eng' = r.w.eng
    /\ last'.exc = r.exc
    /\ last'.ret = r.ret
    /\ last'.cmds = r.w.cmds
    /\ Len(last'.calls) = Len(r.w.calls)
    /\ \A i \in 1..Len(r.w.calls) : last'.calls[i].kw = r.w.calls[i].kw

\* C10: swap_working_container() does what clean() followed by create() with
\* no volumes does; when it succeeds the working container is a new one with
\* no bind-mounts and the first-phase configuration.
SwapIsCleanThenCreate ==
    /\ [](\A b \in DOMAIN build :
              RanOk(b, "swap") =>
                  /\ Issued(last.cmds, "rm") = {1}
                  /\ Issued(last.cmds, "from") = {2}
                  /\ Flag("-v") \notin Range(last.cmds[2].argv)
                  /\ HasContainer(b)
                  /\ Container(b).mounts = <<>>
                  /\ Container(b).ranAs = {}
                  /\ Container(b).config = Phase1Config(build[b].metadata))
    /\ [][\A b \in DOMAIN build :
              (last'.inst = b /\ last'.op = "swap") => SameAs(CleanThenCreate(b))]_vars

\* C10's case: the working container was created with a bind-mount, and the
\* swap replaced it.
SwappedMountedContainer ==
    /\ RanOk(1, "swap")
    /\ phase[1] = Phase("swapped", <<Mount1>>)
    /\ HasContainer(1)
    /\ Container(1).mounts = <<>>

\* The reference names an image whose metadata has the identity field.
HasIdentity(ref) == ref \in DOMAIN eng.images /\ eng.images[ref].hasId

\* C11: is_image_present(ref) returns true exactly when get_image_id(ref)
\* returns a value that is not None: when the reference names an image whose
\* metadata has the identity field, whatever string the field holds.
PresentIffIdNotAbsent ==
    \A b \in DOMAIN build :
        Ran(b, "is_image_present") =>
            /\ last.exc = NoExc
            /\ last.ret = Val(HasIdentity(last.args[1]))

\* C12: the `buildah from` of create(build_volumes) gives every bind-mount as
\* the value of a -v flag of its own, followed by --name, the container name
\* and the image; when it succeeds the container has these bind-mounts.
EveryVolumeHasItsFlag ==
    \A b \in DOMAIN build :
        (Ran(b, "create") /\ last.cmds # <<>>) =>
            /\ last.cmds[1].argv =
                   <<Buildah, S("from")>> \o EachArgs(Flag("-v"), last.args)
                   \o <<Flag("--name"), ansible_host(b), build[b].base_layer>>
            /\ last.cmds[1].rc = 0 => Container(b).mounts = last.args

\* C13: pull() verifies the run engine before it issues the pull command; on
\* a host without it pull() fails with DependencyMissing naming the binary,
\* issues no command and leaves the engine's storage as it was.
PullVerifiesFirst ==
    /\ [](\A b \in DOMAIN build :
              Ran(b, "pull") =>
                  /\ \A i \in 1..Len(last.cmds) : Podman \in last.cmds[i].verified
                  /\ Podman \notin installed =>
                         /\ last.exc = Exc(DependencyMissing, Podman)
                         /\ last.cmds = <<>>)
    /\ [][(last'.op = "pull" /\ Podman \notin installed) => eng' = eng]_vars

\* C13's case: pull() on a host that has the build engine but not the run engine.
PullWithoutPodman ==
    /\ Ran(1, "pull")
    /\ installed = {Buildah}
    /\ last.exc.type = DependencyMissing
    /\ last.cmds = <<>>

\* The operations that C14 names.
FailFast == {"create", "commit", "clean", "pull"}

\* C14: within one create, commit, clean or pull no external command is
\* issued twice, only the last command issued can have failed, and then the
\* operation fails; a commit() whose configuration command failed issued
\* nothing else and made no image.
NoRetries ==
    /\ [](last.op \in FailFast =>
              /\ \A i, j \in 1..Len(last.cmds) :
                     last.cmds[i].argv = last.cmds[j].argv => i = j
              /\ \A i \in 1..Len(last.cmds) :
                     last.cmds[i].rc # 0 =>
                         /\ i = Len(last.cmds)
                         /\ last.exc = Exc(ExternalCommandFailed, last.cmds[i].err))
    /\ [][(last'.op = "commit" /\ \E i \in Issued(last'.cmds, "config") : last'.cmds[i].rc # 0) =>
              /\ Len(last'.cmds) = 1
              /\ eng'.images = eng.images
              /\ eng' = eng]_vars

\* C14's case: the engine rejected the configuration command of commit().
CommitFailedAtConfig ==
    /\ Ran(1, "commit")
    /\ last.exc.type = ExternalCommandFailed
    /\ Len(last.cmds) = 1
    /\ last.cmds[1].argv[2] = S("config")
    /\ last.cmds[1].rc # 0
    /\ HasContainer(1)
    /\ eng.commits = 0

\* The number of the three finishing fields the call's keywords carry.
Carried(kw) == Count(<<Truthy(kw.user), Truthy(kw.cmd), Truthy(kw.volumes)>>)

\* C15: commit() calls configure_buildah_container exactly when the build
\* declares a user, a default command or volumes; the call carries those
\* three as declared and no working directory, environment, ports or labels,
\* and its command has the flags of the declared ones only; with none
\* declared the first command of commit() is `buildah commit`.
CommitConfiguresDeclaredOnly ==
    \A b \in DOMAIN build :
        Ran(b, "commit") =>
            IF Declared2(build[b].metadata) = 0
            THEN /\ last.calls = <<>>
                 /\ Issued(last.cmds, "config") = {}
                 /\ last.cmds[1].argv = <<Buildah, S("commit"), ansible_host(b), last.args[1]>>
            ELSE /\ Len(last.calls) = 1
                 /\ last.calls[1].after = 0
                 /\ last.calls[1].kw.user = build[b].metadata.user
                 /\ last.calls[1].kw.cmd = build[b].metadata.cmd
                 /\ last.calls[1].kw.volumes = build[b].metadata.volumes
                 /\ Carried(last.calls[1].kw) = Declared2(build[b].metadata)
                 /\ ~Truthy(last.calls[1].kw.working_dir)
                 /\ ~Truthy(last.calls[1].kw.env_vars)
                 /\ ~Truthy(last.calls[1].kw.ports)
                 /\ ~Truthy(last.calls[1].kw.labels)
                 /\ Issued(last.cmds, "config") = {1}
                 /\ FlagsOf(last.cmds[1].argv) =
                        (IF Truthy(build[b].metadata.user) THEN {Flag("--user")} ELSE {})
                        \cup (IF Truthy(build[b].metadata.cmd) THEN {Flag("--cmd")} ELSE {})
                        \cup (IF Truthy(build[b].metadata.volumes) THEN {Flag("-v")} ELSE {})

\* C15's case: commit() for a build that declares every first-phase field and,
\* of the finishing fields, the user only.
CommittedWithUserOnly ==
    /\ RanOk(1, "commit")
    /\ Declared1(build[1].metadata) = 4
    /\ Declared2(build[1].metadata) = 1
    /\ Truthy(build[1].metadata.user)
    /\ Len(last.calls) = 1
    /\ FlagsOf(last.cmds[1].argv) = {Flag("--user")}

\* C16: a create() called while the instance's working container is present,
\* and a commit() called while it is absent, fail with ExternalCommandFailed
\* and leave the engine's containers and images as they were; a commit() that
\* succeeded started with the container present and made the image from it.
PreconditionsEnforced ==
    [][\A b \in DOMAIN build :
           /\ (last'.inst = b /\ last'.op = "create" /\ HasContainer(b)) =>
                  /\ last'.exc.type = ExternalCommandFailed
                  /\ eng' = eng
           /\ (last'.inst = b /\ last'.op = "commit" /\ ~HasContainer(b)) =>
                  /\ last'.exc.type = ExternalCommandFailed
                  /\ eng' = eng
           /\ (last'.inst = b /\ last'.op = "commit" /\ last'.exc = NoExc) =>
                  /\ HasContainer(b)
                  /\ eng'.containers[ansible_host(b)].image = Container(b).image
                  /\ eng'.images[last'.args[1]].config =
                         eng'.containers[ansible_host(b)].config]_vars

\* C16's case: create() was called while the working container was present.
CreateWhilePresent ==
    /\ Ran(1, "create")
    /\ last.exc.type = ExternalCommandFailed
    /\ Len(last.cmds) = 1
    /\ last.cmds[1].err = S("name in use")
    /\ HasContainer(1)

\* The container name of instance b: its target image reference and "-cont".
OwnName(b) == build[b].target_image \o S("-cont")

\* The command is a from, config, commit or rm of the build engine.
OnContainer(cmd) ==
    cmd.argv[1] = Buildah /\ cmd.argv[2] \in {S("from"), S("config"), S("commit"), S("rm")}

\* The container name the command works on.
NamedIn(argv) ==
    IF argv[2] = S("from") THEN {argv[j + 1] : j \in {i \in 1..(Len(argv) - 1) : argv[i] = Flag("--name")}}
    ELSE IF argv[2] = S("config") THEN {argv[Len(argv)]}
    ELSE {argv[3]}

\* C17: every from, config, commit and rm command of an instance names the
\* one container derived from its target image (target + "-cont"), and no
\* step of one instance adds, changes or removes the working container of
\* another instance, however the operations of the two are interleaved.
InstancesIsolated ==
    /\ [](\A b \in DOMAIN build :
              last.inst = b =>
                  \A i \in 1..Len(last.cmds) :
                      OnContainer(last.cmds[i]) => NamedIn(last.cmds[i].argv) = {OwnName(b)})
    /\ [][\A b \in DOMAIN build : \A c \in DOMAIN build \ {b} :
              last'.inst = b =>
                  /\ OwnName(c) # OwnName(b)
                  /\ (OwnName(c) \in DOMAIN eng'.containers) <=>
                         (OwnName(c) \in DOMAIN eng.containers)
                  /\ OwnName(c) \in DOMAIN eng.containers =>
                         eng'.containers[OwnName(c)] = eng.containers[OwnName(c)]]_vars

\* C17's case: both instances had their working containers, the first was
\* provisioned and committed, and the second then removed its own.
SecondCleanedBesideFirst ==
    /\ RanOk(2, "clean")
    /\ OwnName(1) \in DOMAIN eng.containers
    /\ OwnName(2) \notin DOMAIN eng.containers
    /\ eng.containers[OwnName(1)].ranAs # {}
    /\ eng.commits = 1
    /\ phase[2].at = "cleaned"

\* C18: the image create() builds the working container from is the build's
\* base image, the one pull() pulls and find_python_interpreter() probes.
CreateFromBaseImage ==
    \A b \in DOMAIN build :
        /\ (Ran(b, "create") /\ last.cmds # <<>>) =>
               /\ last.cmds[1].argv[Len(last.cmds[1].argv)] = build[b].base_image
               /\ last.cmds[1].rc = 0 => Container(b).image = build[b].base_image
        /\ (Ran(b, "pull") /\ last.cmds # <<>>) =>
               last.cmds[1].argv = <<Podman, S("pull"), build[b].base_image>>
        /\ Ran(b, "find_python_interpreter") =>
               \A i \in 1..Len(last.cmds) : last.cmds[i].argv[4] = build[b].base_image

\* How many times the flag stands in the command.
FlagCount(argv, flag) == Cardinality({i \in 1..Len(argv) : argv[i] = flag})

\* The flags and values a call with the keywords kw has to give: one
\* --workingdir, --user and --cmd when set, one -e, -l, -p and -v per entry.
Expected(kw) ==
    [f \in ConfigFlags |->
        IF f = Flag("--workingdir") THEN (IF kw.working_dir # EmptyStr THEN 1 ELSE 0)
        ELSE IF f = Flag("--user") THEN (IF kw.user # EmptyStr THEN 1 ELSE 0)
        ELSE IF f = Flag("--cmd") THEN (IF kw.cmd # EmptyStr THEN 1 ELSE 0)
        ELSE IF f = Flag("-e") THEN Len(kw.env_vars)
        ELSE IF f = Flag("-l") THEN Len(kw.labels)
        ELSE IF f = Flag("-p") THEN Len(kw.ports)
        ELSE Len(kw.volumes)]

NothingToApply(kw) == \A f \in ConfigFlags : Expected(kw)[f] = 0

RECURSIVE SumOver(_, _)
SumOver(f, dom) ==
    IF dom = {} THEN 0
    ELSE LET x == CHOOSE y \in dom : TRUE IN f[x] + SumOver(f, dom \ {x})

\* C19: a call of configure_buildah_container with nothing to apply issues no
\* command, so create() for a build without first-phase values issues only
\* `buildah from`; a call with something to apply issues one `buildah
\* config` whose flags are exactly those of the fields passed, one per
\* environment variable, label, port and volume, followed by the container.
ConfigFlagsMatchFields ==
    /\ \A k \in 1..Len(last.calls) :
           IF NothingToApply(last.calls[k].kw)
           THEN last.calls[k].after + 1 \notin Issued(last.cmds, "config")
           ELSE /\ last.calls[k].after + 1 \in Issued(last.cmds, "config")
                /\ \A f \in ConfigFlags :
                       FlagCount(last.cmds[last.calls[k].after + 1].argv, f) =
                           Expected(last.calls[k].kw)[f]
                /\ Len(last.cmds[last.calls[k].after + 1].argv) =
                       2 * SumOver(Expected(last.calls[k].kw), ConfigFlags) + 3
                /\ last.cmds[last.calls[k].after + 1].argv[
                       Len(last.cmds[last.calls[k].after + 1].argv)] = last.calls[k].container
    /\ Cardinality(Issued(last.cmds, "config")) =
           Cardinality({k \in 1..Len(last.calls) : ~NothingToApply(last.calls[k].kw)})
    /\ \A b \in DOMAIN build :
           (Ran(b, "create") /\ Declared1(build[b].metadata) = 0 /\ last.cmds # <<>>) =>
               /\ Len(last.cmds) = 1
               /\ last.cmds[1].argv[2] = S("from")
               /\ last.cmds[1].rc = 0 => last.exc = NoExc /\ HasContainer(b)

\* C19's case: create() succeeded for a build that declares no first-phase
\* value (and all the finishing ones).
CreatedWithNothingToApply ==
    /\ RanOk(1, "create")
    /\ Declared1(build[1].metadata) = 0
    /\ Declared2(build[1].metadata) = 3
    /\ Len(last.calls) = 1
    /\ Len(last.cmds) = 1
    /\ HasContainer(1)

====
